---- MODULE Spec2Model ----
(***************************************************************************)
(* The image-processing core of stamp-remover (utils/imageProcessor):      *)
(* processSealImage, upscaleAndSharpen and traceToSvg with its fallback    *)
(* generateFallbackSvg, as a state machine over the canvases they write,   *)
(* and analyzeSealImage (services/geminiService) beside them.              *)
(*                                                                         *)
(* A pixel is a record [r, g, b, a] of bytes; an image or an ImageData     *)
(* buffer is a row-major sequence of pixels (the code's flat byte array,   *)
(* four bytes per pixel).  A colour string is a sequence of one-character  *)
(* strings.                                                                *)
(***************************************************************************)
EXTENDS Integers, Sequences, FiniteSets, TLC

VARIABLES
    canvas,   \* canvas[c] = [width, height, ctx, bitmap]: the HTMLCanvasElement c
    call,     \* call[c]: the last processSealImage call whose destination was c
    svg,      \* how traceToSvg last ended, for which canvas (see NoSvg)
    upscaled, \* the last upscaleAndSharpen call
    analysis, \* the promise of the last analyzeSealImage call
    app       \* the App component: its state, its refs and its pending callbacks

vars == <<canvas, call, svg, upscaled, analysis, app>>

None == "none"

\* the App component is not mounted
NoApp == [mounts |-> 0]

(***************************************************************************)
(* Bounds of the model.                                                    *)
(***************************************************************************)
MaxW == 2          \* widest image processed by Spec
MaxH == 2          \* tallest image processed by Spec
MaxGen == 1        \* how often an output is fed back as the next source image
MaxTracePixels == 9   \* most pixels of a surface traced by SpecTrace

Canvases == {"processed", "upscale"}

Max2(x, y) == IF x >= y THEN x ELSE y
Min2(x, y) == IF x <= y THEN x ELSE y

(***************************************************************************)
(* IEEE-754 binary64 arithmetic of line 33 and line 44.                    *)
(*                                                                         *)
(* rRatio = 1.0 + (redSensitivity / 100) is two correctly rounded double   *)
(* operations, and g * rRatio a third.  The 52 bits after the binary point *)
(* of a double in [1, 2] are kept as four limbs of 13 bits, most           *)
(* significant first, so that every intermediate value fits a machine      *)
(* integer.  Rounding is to nearest, ties to even.                         *)
(***************************************************************************)
LimbBits == 13
LimbBase == 8192   \* 2^13

RECURSIVE BitLength(_)
BitLength(n) == IF n = 0 THEN 0 ELSE 1 + BitLength(n \div 2)

RECURSIVE PowerOfTwo(_)
PowerOfTwo(e) == IF e = 0 THEN 1 ELSE 2 * PowerOfTwo(e - 1)

RECURSIVE RemainderAfter(_, _, _)
\* What is left of n/den (0 <= n < den) after j limbs of its expansion.
RemainderAfter(n, den, j) ==
    IF j = 0 THEN n ELSE (RemainderAfter(n, den, j - 1) * LimbBase) % den

\* Limb j of the expansion of n/den after the binary point.
ExpansionLimb(n, den, j) == (RemainderAfter(n, den, j - 1) * LimbBase) \div den

\* k * x + c for four limbs x: [carry, limbs], the carry out of the first limb
\* and the four limbs of the result.
MulAdd(k, x, c) ==
    LET v4 == k * x[4] + c
        v3 == k * x[3] + v4 \div LimbBase
        v2 == k * x[2] + v3 \div LimbBase
        v1 == k * x[1] + v2 \div LimbBase
    IN  [carry |-> v1 \div LimbBase,
         limbs |-> <<v1 % LimbBase, v2 % LimbBase, v3 % LimbBase, v4 % LimbBase>>]

\* Does a value round up, whose dropped bits spell `low` out of `nbits` bits,
\* followed by more nonzero bits iff `sticky`, and whose last kept bit is lsb?
RoundsUp(low, nbits, sticky, lsb) ==
    /\ nbits > 0
    /\ LET half == PowerOfTwo(nbits - 1)
       IN  \/ low > half
           \/ low = half /\ (sticky \/ lsb = 1)

\* The double n / 100 for 0 < n < 100: its 53 significant bits start after
\* lz zero bits, so it has lz + 53 bits after the point: four limbs and a
\* tail of lz + 1 bits.  (lz <= 6, and no n in 1..99 rounds up to 1.0.)
Hundredth(n) ==
    LET lz    == LimbBits - BitLength(ExpansionLimb(n, 100, 1))
        fifth == ExpansionLimb(n, 100, 5)
        ndrop == LimbBits - (lz + 1)
        cut   == PowerOfTwo(ndrop)
        up    == RoundsUp(fifth % cut, ndrop, RemainderAfter(n, 100, 5) # 0,
                          (fifth \div cut) % 2)
        tail  == fifth \div cut + (IF up THEN 1 ELSE 0)
        top   == PowerOfTwo(lz + 1)
        m     == MulAdd(1, <<ExpansionLimb(n, 100, 1), ExpansionLimb(n, 100, 2),
                             ExpansionLimb(n, 100, 3), ExpansionLimb(n, 100, 4)>>,
                        tail \div top)
    IN  [limbs |-> m.limbs, tail |-> tail % top, tailBits |-> lz + 1]

\* line 33: rRatio = 1.0 + (redSensitivity / 100), for redSensitivity in
\* 0..100: [int, frac], the integer part and the 52 bits after the point.
RRatio(redSensitivity) ==
    IF redSensitivity % 100 = 0
    THEN [int |-> 1 + redSensitivity \div 100, frac |-> <<0, 0, 0, 0>>]
    ELSE LET q == Hundredth(redSensitivity)
             s == MulAdd(1, q.limbs,
                         IF RoundsUp(q.tail, q.tailBits, FALSE, q.limbs[4] % 2)
                         THEN 1 ELSE 0)
         IN  [int |-> 1 + s.carry, frac |-> s.limbs]

\* floor of the double k * ratio (line 44: g * rRatio, b * rRatio), k in 0..255.
\* The exact product is whole + p.limbs / 2^52; the double keeps its first 53
\* significant bits, so it drops the last BitLength(whole) - 1 bits, and its
\* floor is whole + 1 when every kept bit after the point is 1 and it rounds up.
FloorOfProduct(k, ratio) ==
    IF k = 0 THEN 0
    ELSE LET p     == MulAdd(k, ratio.frac, 0)
             whole == k * ratio.int + p.carry
             ndrop == BitLength(whole) - 1
             cut   == PowerOfTwo(ndrop)
             last  == p.limbs[4] \div cut
         IN  IF /\ RoundsUp(p.limbs[4] % cut, ndrop, FALSE, last % 2)
                /\ p.limbs[1] = LimbBase - 1
                /\ p.limbs[2] = LimbBase - 1
                /\ p.limbs[3] = LimbBase - 1
                /\ last = LimbBase \div cut - 1
             THEN whole + 1 ELSE whole

\* line 44: r > (g * rRatio).  r is an integer, so it exceeds the double
\* exactly when it exceeds the double's floor.
ExceedsProduct(r, k, ratio) == r > FloorOfProduct(k, ratio)

(***************************************************************************)
(* hexToRgb (lines 5-12).                                                  *)
(***************************************************************************)
HexDigits == <<"0", "1", "2", "3", "4", "5", "6", "7", "8", "9",
               "a", "b", "c", "d", "e", "f">>
UpperHexDigits == <<"0", "1", "2", "3", "4", "5", "6", "7", "8", "9",
                    "A", "B", "C", "D", "E", "F">>

IsLowerHexDigit(ch) == \E i \in 1..16 : ch = HexDigits[i]

\* [a-f\d] under the i flag
IsHexDigit(ch) == \E i \in 1..16 : ch = HexDigits[i] \/ ch = UpperHexDigits[i]

HexValue(ch) ==
    (CHOOSE i \in 1..16 : ch = HexDigits[i] \/ ch = UpperHexDigits[i]) - 1

\* parseInt(result[k], 16) of a two-digit group
ParseInt16(pair) == 16 * HexValue(pair[1]) + HexValue(pair[2])

DefaultRgb == [r |-> 217, g |-> 0, b |-> 0]

hexToRgbUnanchored(hex) ==
    LET digits == IF Len(hex) > 0 /\ hex[1] = "#" THEN Tail(hex) ELSE hex
    IN  IF Len(digits) >= 6 /\ \A i \in 1..6 : IsHexDigit(digits[i])
        THEN [r |-> ParseInt16(SubSeq(digits, 1, 2)),
              g |-> ParseInt16(SubSeq(digits, 3, 4)),
              b |-> ParseInt16(SubSeq(digits, 5, 6))]
        ELSE DefaultRgb

\* /^#?([a-f\d]{2})([a-f\d]{2})([a-f\d]{2})$/i : an optional '#', then
\* exactly six hexadecimal digits and nothing after them.
hexToRgb(hex) ==
    LET digits == IF Len(hex) > 0 /\ hex[1] = "#" THEN Tail(hex) ELSE hex
    IN  IF Len(digits) = 6 /\ \A i \in 1..6 : IsHexDigit(digits[i])
        THEN [r |-> ParseInt16(SubSeq(digits, 1, 2)),
              g |-> ParseInt16(SubSeq(digits, 3, 4)),
              b |-> ParseInt16(SubSeq(digits, 5, 6))]
        ELSE DefaultRgb

(***************************************************************************)
(* The 2D canvas the code draws on.  The bitmap of a canvas holds          *)
(* premultiplied colour; ImageData and decoded images hold straight        *)
(* colour.  Pixel (x, y) of a w-wide buffer is element y * w + x + 1.      *)
(***************************************************************************)
Byte == 255

TransparentBlack == [r |-> 0, g |-> 0, b |-> 0, a |-> 0]

\* c * a / 255, rounded
Scale(c, a) == (c * a + 127) \div Byte

Premultiply(px) ==
    [r |-> Scale(px.r, px.a), g |-> Scale(px.g, px.a),
     b |-> Scale(px.b, px.a), a |-> px.a]

Unscale(c, a) == Min2(Byte, (c * Byte + a \div 2) \div a)

Unpremultiply(px) ==
    IF px.a = 0 THEN TransparentBlack
    ELSE [r |-> Unscale(px.r, px.a), g |-> Unscale(px.g, px.a),
          b |-> Unscale(px.b, px.a), a |-> px.a]

\* source-over of premultiplied s on premultiplied d
Over(s, d) ==
    [r |-> Min2(Byte, s.r + Scale(d.r, Byte - s.a)),
     g |-> Min2(Byte, s.g + Scale(d.g, Byte - s.a)),
     b |-> Min2(Byte, s.b + Scale(d.b, Byte - s.a)),
     a |-> Min2(Byte, s.a + Scale(d.a, Byte - s.a))]

Blank(n) == [i \in 1..n |-> TransparentBlack]

\* lines 23 and 24: assigning canvas.width or canvas.height resizes the
\* bitmap and clears it to transparent black.
SetWidth(cv, width) ==
    [cv EXCEPT !.width = width, !.bitmap = Blank(width * cv.height)]

SetHeightKeepsOld(cv, height) == cv

SetHeight(cv, height) ==
    [cv EXCEPT !.height = height, !.bitmap = Blank(cv.width * height)]

\* line 26: ctx.drawImage(originalImage, 0, 0) composites the image, at its
\* own size, over what the bitmap holds.
DrawImage(cv, image) ==
    [cv EXCEPT !.bitmap =
        [i \in 1..(cv.width * cv.height) |->
            LET x == (i - 1) % cv.width
                y == (i - 1) \div cv.width
            IN  IF x < image.width /\ y < image.height
                THEN Over(Premultiply(image.data[y * image.width + x + 1]),
                          cv.bitmap[i])
                ELSE cv.bitmap[i]]]

\* line 27: ctx.getImageData(0, 0, width, height): straight colour; what
\* lies outside the bitmap reads as transparent black.
GetImageData(cv, width, height) ==
    [i \in 1..(width * height) |->
        LET x == (i - 1) % width
            y == (i - 1) \div width
        IN  IF x < cv.width /\ y < cv.height
            THEN Unpremultiply(cv.bitmap[y * cv.width + x + 1])
            ELSE TransparentBlack]

PutImageDataComposites(cv, data, width, height) ==
    [cv EXCEPT !.bitmap =
        [i \in 1..(cv.width * cv.height) |->
            LET x == (i - 1) % cv.width
                y == (i - 1) \div cv.width
            IN  IF x < width /\ y < height
                THEN Over(Premultiply(data[y * width + x + 1]), cv.bitmap[i])
                ELSE cv.bitmap[i]]]

\* line 67: ctx.putImageData(imageData, 0, 0) replaces the pixels it covers.
PutImageData(cv, data, width, height) ==
    [cv EXCEPT !.bitmap =
        [i \in 1..(cv.width * cv.height) |->
            LET x == (i - 1) % cv.width
                y == (i - 1) \div cv.width
            IN  IF x < width /\ y < height
                THEN Premultiply(data[y * width + x + 1])
                ELSE cv.bitmap[i]]]

\* canvas.toDataURL('image/png') decoded again (App.tsx: the data URL the
\* processed canvas is published as): the canvas as an image.
CanvasImage(cv) ==
    [width |-> cv.width, height |-> cv.height,
     data |-> GetImageData(cv, cv.width, cv.height)]

(***************************************************************************)
(* The classifier (lines 36-55).  lightness = (r + g + b) / 3 is a double; *)
(* a correctly rounded quotient by 3 never crosses an integer, so          *)
(* comparing it with an integer t is comparing r + g + b with 3 * t.       *)
(***************************************************************************)
Max3(x, y, z) == Max2(x, Max2(y, z))
Min3(x, y, z) == Min2(x, Min2(y, z))

\* line 46: lightness <= lightnessThreshold
IsLightEnough(px, lightnessThreshold) == px.r + px.g + px.b <= 3 * lightnessThreshold

IsReddishAgainstGreenOnly(px, rRatio) == ExceedsProduct(px.r, px.g, rRatio)

\* line 44
IsReddish(px, rRatio) ==
    ExceedsProduct(px.r, px.g, rRatio) /\ ExceedsProduct(px.r, px.b, rRatio)

\* line 45
ColorDiff(px) == px.r - Max2(px.g, px.b)

\* line 50
Saturation(px) == Max3(px.r, px.g, px.b) - Min3(px.r, px.g, px.b)

IsDarkInclusive(px, lightnessThreshold) ==
    px.r + px.g + px.b <= 3 * (255 - lightnessThreshold)

IsDarkBelowThreshold(px, lightnessThreshold) ==
    px.r + px.g + px.b < 3 * lightnessThreshold

\* line 51: lightness < (255 - lightnessThreshold)
IsDark(px, lightnessThreshold) ==
    px.r + px.g + px.b < 3 * (255 - lightnessThreshold)

\* lines 41-55: shouldKeep
ShouldKeepMixedIsEither(px, settings, rRatio) ==
    LET red   == /\ IsLightEnough(px, settings.lightnessThreshold)
                 /\ IsReddish(px, rRatio)
                 /\ ColorDiff(px) >= settings.chromaThreshold
        black == /\ IsDark(px, settings.lightnessThreshold)
                 /\ 2 * Saturation(px) < settings.redSensitivity
    IN  IF settings.detectionMode = "red" THEN red
        ELSE IF settings.detectionMode = "black" THEN black
        ELSE red \/ black

ShouldKeepSkipsTransparent(px, settings, rRatio) ==
    /\ px.a # 0
    /\ IF settings.detectionMode = "red"
       THEN /\ IsLightEnough(px, settings.lightnessThreshold)
            /\ IsReddish(px, rRatio)
            /\ ColorDiff(px) >= settings.chromaThreshold
       ELSE /\ IsDark(px, settings.lightnessThreshold)
            /\ 2 * Saturation(px) < settings.redSensitivity

ShouldKeep(px, settings, rRatio) ==
    IF settings.detectionMode = "red"
    THEN /\ IsLightEnough(px, settings.lightnessThreshold)
         /\ IsReddish(px, rRatio)
         /\ ColorDiff(px) >= settings.chromaThreshold
    ELSE /\ IsDark(px, settings.lightnessThreshold)
         /\ 2 * Saturation(px) < settings.redSensitivity

WritePixelKeepsAlpha(px, keep, targetRgb) ==
    IF ~keep THEN px
    ELSE [r |-> targetRgb.r, g |-> targetRgb.g, b |-> targetRgb.b, a |-> 255]

WritePixelKeepsBlue(px, keep, targetRgb) ==
    IF ~keep THEN [px EXCEPT !.a = 0]
    ELSE [r |-> targetRgb.r, g |-> targetRgb.g, b |-> px.b, a |-> 255]

\* lines 57-64
WritePixel(px, keep, targetRgb) ==
    IF ~keep THEN [px EXCEPT !.a = 0]
    ELSE [r |-> targetRgb.r, g |-> targetRgb.g, b |-> targetRgb.b, a |-> 255]

SweepSoftensEdges(data, settings) ==
    LET targetRgb == hexToRgb(settings.targetColor)
        rRatio    == RRatio(settings.redSensitivity)
    IN  [i \in 1..Len(data) |->
            IF ShouldKeep(data[i], settings, rRatio)
            THEN [r |-> targetRgb.r, g |-> targetRgb.g, b |-> targetRgb.b,
                  a |-> 255 - settings.edgeSoftness]
            ELSE [data[i] EXCEPT !.a = 0]]

\* lines 30-65: the pass over the buffer
Sweep(data, settings) ==
    LET targetRgb == hexToRgb(settings.targetColor)
        rRatio    == RRatio(settings.redSensitivity)
    IN  [i \in 1..Len(data) |->
            WritePixel(data[i], ShouldKeep(data[i], settings, rRatio), targetRgb)]

PrepareResizingOnlyOnChange(cv, originalImage) ==
    DrawImage(IF cv.width = originalImage.width /\ cv.height = originalImage.height
              THEN cv
              ELSE SetHeight(SetWidth(cv, originalImage.width), originalImage.height),
              originalImage)

\* lines 22-26: the destination resized to the image and the image drawn
Prepare(cv, originalImage) ==
    DrawImage(SetHeight(SetWidth(cv, originalImage.width), originalImage.height),
              originalImage)

(***************************************************************************)
(* processSealImage (lines 14-68) with destination canvas c.  call[c]      *)
(* keeps the arguments of the call and its two buffers: source, what       *)
(* getImageData returned, and data, the same buffer after the loop; ran    *)
(* says that the call got past line 20.  gen and fromSettings say whether  *)
(* originalImage is itself an output (gen > 0), and of which settings.     *)
(***************************************************************************)
NoImage == [width |-> 0, height |-> 0, data |-> <<>>]

ProcessSealImageResizesFirst(c, originalImage, settings, gen, fromSettings) ==
    /\ UNCHANGED <<svg, upscaled, analysis, app>>
    /\ LET width   == originalImage.width
           height  == originalImage.height
           resized == SetHeight(SetWidth(canvas[c], width), height)
           drawn   == DrawImage(resized, originalImage)
           source  == GetImageData(drawn, width, height)
           data    == Sweep(source, settings)
       IN  IF ~canvas[c].ctx
           THEN /\ canvas' = [canvas EXCEPT ![c] = resized]
                /\ call' = [call EXCEPT ![c] =
                       [made |-> TRUE, originalImage |-> originalImage,
                        settings |-> {settings}, ran |-> FALSE,
                        source |-> <<>>, data |-> <<>>,
                        gen |-> gen, fromSettings |-> fromSettings]]
           ELSE /\ canvas' = [canvas EXCEPT ![c] = PutImageData(drawn, data, width, height)]
                /\ call' = [call EXCEPT ![c] =
                       [made |-> TRUE, originalImage |-> originalImage,
                        settings |-> {settings}, ran |-> TRUE,
                        source |-> source, data |-> data,
                        gen |-> gen, fromSettings |-> fromSettings]]

NoCall ==
    [made |-> FALSE, originalImage |-> NoImage, settings |-> {}, ran |-> FALSE,
     source |-> <<>>, data |-> <<>>, gen |-> 0, fromSettings |-> {}]

ProcessSealImage(c, originalImage, settings, gen, fromSettings) ==
    /\ UNCHANGED <<svg, upscaled, analysis, app>>
    /\ IF ~canvas[c].ctx
       THEN /\ canvas' = canvas
            /\ call' = [call EXCEPT ![c] =
                   [made |-> TRUE, originalImage |-> originalImage,
                    settings |-> {settings}, ran |-> FALSE,
                    source |-> <<>>, data |-> <<>>,
                    gen |-> gen, fromSettings |-> fromSettings]]
       ELSE LET width   == originalImage.width
                height  == originalImage.height
                drawn   == Prepare(canvas[c], originalImage)
                source  == GetImageData(drawn, width, height)
                data    == Sweep(source, settings)
            IN  /\ canvas' = [canvas EXCEPT ![c] = PutImageData(drawn, data, width, height)]
                /\ call' = [call EXCEPT ![c] =
                       [made |-> TRUE, originalImage |-> originalImage,
                        settings |-> {settings}, ran |-> TRUE,
                        source |-> source, data |-> data,
                        gen |-> gen, fromSettings |-> fromSettings]]

(***************************************************************************)
(* generateFallbackSvg (lines 114-138) and traceToSvg (lines 90-112).      *)
(* Strings are built as the template literals build them.                  *)
(***************************************************************************)
\* lines 130 and 134: one rectangle of a row, with its trailing space
Command(startX, y, len) ==
    "M" \o ToString(startX) \o "," \o ToString(y) \o "h" \o ToString(len)
        \o "v1h-" \o ToString(len) \o "z "

\* lines 130 and 134: paths is kept as the sequence of the rectangles
\* appended so far; PathData is the string the appends have built.
Rectangle(startX, y, len) == [x |-> startX, y |-> y, len |-> len]

RECURSIVE PathData(_)
PathData(paths) ==
    IF paths = <<>> THEN ""
    ELSE Command(Head(paths).x, Head(paths).y, Head(paths).len)
             \o PathData(Tail(paths))

IsInkInclusive(alpha) == alpha >= 128

\* line 127
IsInk(alpha) == alpha > 128

\* lines 125-133: the inner loop from column x on; -1 as startX means no
\* run is open.  Returns startX and paths as the loop leaves them.
RECURSIVE ScanColumns(_, _, _, _, _, _)
ScanColumns(data, w, y, x, startX, paths) ==
    IF x >= w THEN [startX |-> startX, paths |-> paths]
    ELSE LET alpha == data[y * w + x + 1].a
         IN  IF IsInk(alpha)
             THEN ScanColumns(data, w, y, x + 1,
                              IF startX = -1 THEN x ELSE startX, paths)
             ELSE IF startX # -1
                  THEN ScanColumns(data, w, y, x + 1, -1,
                                   Append(paths, Rectangle(startX, y, x - startX)))
                  ELSE ScanColumns(data, w, y, x + 1, startX, paths)

ScanRowForgetsEdge(data, w, y, paths) ==
    ScanColumns(data, w, y, 0, -1, paths).paths

\* lines 124-134: one row appended to paths
ScanRow(data, w, y, paths) ==
    LET scanned == ScanColumns(data, w, y, 0, -1, paths)
    IN  IF scanned.startX # -1
        THEN Append(scanned.paths,
                    Rectangle(scanned.startX, y, w - scanned.startX))
        ELSE scanned.paths

\* lines 123-135: the rows from y on
RECURSIVE ScanRows(_, _, _, _, _)
ScanRows(data, w, h, y, paths) ==
    IF y >= h THEN paths
    ELSE ScanRows(data, w, h, y + 1, ScanRow(data, w, y, paths))

SvgDocumentSwapsViewBox(w, h, paths) ==
    "<svg xmlns=\"http://www.w3.org/2000/svg\" viewBox=\"0 0 " \o ToString(h)
        \o " " \o ToString(w) \o "\" width=\"" \o ToString(w) \o "\" height=\""
        \o ToString(h) \o "\"><path d=\"" \o paths
        \o "\" fill=\"currentColor\"/></svg>"

\* line 137
SvgDocument(w, h, paths) ==
    "<svg xmlns=\"http://www.w3.org/2000/svg\" viewBox=\"0 0 " \o ToString(w)
        \o " " \o ToString(h) \o "\" width=\"" \o ToString(w) \o "\" height=\""
        \o ToString(h) \o "\"><path d=\"" \o paths
        \o "\" fill=\"currentColor\"/></svg>"

\* lines 117-135: the rectangles the scan of the canvas appends to paths
Rectangles(cv) ==
    IF ~cv.ctx THEN <<>>
    ELSE ScanRows(GetImageData(cv, cv.width, cv.height),
                  cv.width, cv.height, 0, <<>>)

generateFallbackSvgEmptyDocument(cv) ==
    SvgDocument(cv.width, cv.height, PathData(Rectangles(cv)))

generateFallbackSvgEmptyWhenBlank(cv) ==
    IF ~cv.ctx \/ Rectangles(cv) = <<>> THEN ""
    ELSE SvgDocument(cv.width, cv.height, PathData(Rectangles(cv)))

generateFallbackSvg(cv) ==
    IF ~cv.ctx THEN ""
    ELSE SvgDocument(cv.width, cv.height, PathData(Rectangles(cv)))

\* What the page's ImageTracer global does: it is missing, or getSVGString
\* throws, or it returns the library's own string, which may be empty.
TracerOutcomes == {"undefined", "throws", "returns", "returns empty"}

\* lines 97-106: the options object handed to getSVGString; the decimal
\* literals are kept as written
TracerOptions ==
    [ltres |-> "0.1", qtres |-> "0.1", pathomit |-> 32,
     rightangleenhance |-> TRUE, colorsampling |-> 1, numberofcolors |-> 2,
     mincolorratio |-> "0.05", viewbox |-> TRUE]

\* what getSVGString hands back when it returns
LibraryString(outcome) ==
    IF outcome = "returns" THEN "ImageTracer.getSVGString" ELSE ""

NoSvg == [of |-> None, tracer |-> None, text |-> "", threw |-> None,
          calls |-> <<>>, library |-> "", paths |-> <<>>, scans |-> 0]

\* line 119: getImageData raises IndexSizeError when asked for no pixels;
\* lines 93 and 110 call generateFallbackSvg outside any try block.
FallbackThrows(cv) == cv.ctx /\ (cv.width = 0 \/ cv.height = 0)

TraceToSvgFallsBackOnEmpty(c, outcome) ==
    /\ svg' = IF outcome = "returns"
              THEN [of |-> c, tracer |-> "ImageTracer",
                    text |-> LibraryString(outcome), threw |-> None,
                    calls |-> <<[canvas |-> c, options |-> TracerOptions]>>,
                    library |-> LibraryString(outcome),
                    paths |-> <<>>, scans |-> 0]
              ELSE IF outcome = "returns empty"
              THEN [of |-> c, tracer |-> "ImageTracer",
                    text |-> generateFallbackSvg(canvas[c]), threw |-> None,
                    calls |-> <<[canvas |-> c, options |-> TracerOptions]>>,
                    library |-> LibraryString(outcome),
                    paths |-> Rectangles(canvas[c]), scans |-> 1]
              ELSE [of |-> c, tracer |-> "fallback",
                    text |-> generateFallbackSvg(canvas[c]), threw |-> None,
                    calls |-> <<>>, library |-> "",
                    paths |-> Rectangles(canvas[c]), scans |-> 1]
    /\ UNCHANGED <<canvas, call, upscaled, analysis, app>>

\* lines 90-112: what traceToSvg does with the canvas cv, known as c: what
\* it returned, or what it threw, which tracer produced it, the calls made
\* to getSVGString with their arguments, the string the library returned,
\* the rectangles the fallback scan appended and how many times
\* generateFallbackSvg was entered.
Traced(c, cv, outcome) ==
    LET defined  == outcome # "undefined"
        calls    == IF defined
                    THEN <<[canvas |-> c, options |-> TracerOptions]>>
                    ELSE <<>>
        returned == outcome \in {"returns", "returns empty"}
    IN  IF returned
        THEN [of |-> c, tracer |-> "ImageTracer",
              text |-> LibraryString(outcome), threw |-> None,
              calls |-> calls, library |-> LibraryString(outcome),
              paths |-> <<>>, scans |-> 0]
        ELSE IF FallbackThrows(cv)
        THEN [of |-> c, tracer |-> "fallback", text |-> "",
              threw |-> "IndexSizeError", calls |-> calls,
              library |-> "", paths |-> <<>>, scans |-> 1]
        ELSE [of |-> c, tracer |-> "fallback",
              text |-> generateFallbackSvg(cv), threw |-> None,
              calls |-> calls, library |-> "",
              paths |-> Rectangles(cv), scans |-> 1]

\* traceToSvg(canvas) with the canvas c; svg keeps how it ended
TraceToSvg(c, outcome) ==
    /\ svg' = Traced(c, canvas[c], outcome)
    /\ UNCHANGED <<canvas, call, upscaled, analysis, app>>

(***************************************************************************)
(* upscaleAndSharpen (lines 70-88).  A scale is a fraction num/den with    *)
(* den a power of two, so that sw * scale is exact in a double.            *)
(***************************************************************************)
ToUnsignedLongRounds(num, den) == (2 * num + den) \div (2 * den)

\* lines 80-81: width and height of a canvas are unsigned long attributes;
\* assigning the double num/den stores its integer part.
ToUnsignedLong(num, den) == num \div den

\* What imageSmoothingQuality = 'high' (lines 85-86) resamples with is left
\* to the runtime: the source pixel under the centre of the target pixel, or
\* its mean with the source pixel to the right.
Samplers == {"nearest", "smooth"}

Mean(p, q) ==
    [r |-> (p.r + q.r) \div 2, g |-> (p.g + q.g) \div 2,
     b |-> (p.b + q.b) \div 2, a |-> (p.a + q.a) \div 2]

\* the pixel that sampler reads of the source bitmap for the target pixel
\* (x, y), the source stretched by scale
Resample(source, x, y, scale, sampler) ==
    LET sx    == Min2(source.width - 1, ((2 * x + 1) * scale.den) \div (2 * scale.num))
        sy    == Min2(source.height - 1, ((2 * y + 1) * scale.den) \div (2 * scale.num))
        right == Min2(source.width - 1, sx + 1)
        here  == source.bitmap[sy * source.width + sx + 1]
    IN  IF sampler = "nearest" THEN here
        ELSE Mean(here, source.bitmap[sy * source.width + right + 1])

\* line 87: ctx.drawImage(sourceCanvas, 0, 0, dw, dh)
DrawImageScaled(cv, source, scale, sampler) ==
    [cv EXCEPT !.bitmap =
        [i \in 1..(cv.width * cv.height) |->
            Over(Resample(source, (i - 1) % cv.width, (i - 1) \div cv.width,
                          scale, sampler),
                 cv.bitmap[i])]]

\* lines 76-87: the target canvas after upscaleAndSharpen(source, target, scale)
UpscaledTarget(source, target, scale, sampler) ==
    LET resized == SetHeight(SetWidth(target, ToUnsignedLong(source.width * scale.num, scale.den)),
                             ToUnsignedLong(source.height * scale.num, scale.den))
    IN  IF ~target.ctx THEN resized
        ELSE DrawImageScaled(resized, source, scale, sampler)

NoUpscale ==
    [made |-> FALSE, sw |-> 0, sh |-> 0, scale |-> [num |-> 1, den |-> 1],
     before |-> [width |-> 0, height |-> 0], ran |-> FALSE]

\* upscaleAndSharpen(sourceCanvas, targetCanvas, scale) with the canvases s
\* and d; upscaled keeps the arguments, the size the target had, and whether
\* the call got past line 83.
UpscaleAndSharpen(s, d, scale, sampler) ==
    /\ canvas' = [canvas EXCEPT ![d] = UpscaledTarget(canvas[s], canvas[d], scale, sampler)]
    /\ upscaled' = [made |-> TRUE, sw |-> canvas[s].width, sh |-> canvas[s].height,
                    scale |-> scale,
                    before |-> [width |-> canvas[d].width,
                                height |-> canvas[d].height],
                    ran |-> canvas[d].ctx]
    /\ UNCHANGED <<call, svg, analysis, app>>

(***************************************************************************)
(* analyzeSealImage (services/geminiService lines 6-34).  The remote call  *)
(* ai.models.generateContent stays pending, or throws, or yields a         *)
(* response whose text is a string, possibly empty, or undefined.          *)
(***************************************************************************)
NoAnalysis == [state |-> "idle", text |-> ""]

RemoteOutcomes == {"throws", "no text", "empty text", "text"}

\* line 6-8: the call is made and awaits the remote answer
AnalyzeSealImage ==
    /\ analysis.state # "pending"
    /\ analysis' = [state |-> "pending", text |-> ""]
    /\ UNCHANGED <<canvas, call, svg, upscaled, app>>

AnalysisRethrows(outcome) ==
    IF outcome = "throws" THEN [state |-> "rejected", text |-> ""]
    ELSE IF outcome = "text" THEN [state |-> "resolved", text |-> "advice"]
    ELSE [state |-> "resolved", text |-> "Analysis unavailable."]

\* lines 29-33: what the promise settles to
AnalysisResult(outcome) ==
    IF outcome = "throws"
    THEN [state |-> "resolved", text |-> "Could not perform AI analysis at this time."]
    ELSE IF outcome = "text" THEN [state |-> "resolved", text |-> "advice"]
    ELSE [state |-> "resolved", text |-> "Analysis unavailable."]

\* the remote call ends and the promise settles
SettleAnalysis(outcome) ==
    /\ analysis.state = "pending"
    /\ analysis' = AnalysisResult(outcome)
    /\ UNCHANGED <<canvas, call, svg, upscaled, app>>

(***************************************************************************)
(* The inputs of the model.                                                *)
(***************************************************************************)
Red == <<"#", "d", "9", "0", "0", "0", "0">>         \* App.tsx DEFAULT_SETTINGS
Slate == <<"#", "1", "e", "2", "9", "3", "b">>       \* App.tsx, the black-ink button
BadInput == <<"b", "a", "d", "-", "i", "n", "p", "u", "t">>

Rgba(r, g, b, a) == [r |-> r, g |-> g, b |-> b, a |-> a]

\* red ink, translucent red ink, black ink, a transparent pixel, paper
Palette == <<Rgba(200, 30, 30, 255), Rgba(200, 30, 30, 128), Rgba(20, 20, 20, 255),
             Rgba(20, 20, 20, 0), Rgba(250, 250, 250, 255)>>

\* The width x height image that cycles through the palette from entry k + 1.
PaletteImage(width, height, k) ==
    [width |-> width, height |-> height,
     data |-> [i \in 1..(width * height) |-> Palette[((i - 1 + k) % Len(Palette)) + 1]]]

Sizes == {<<1, 1>>, <<1, MaxH>>, <<MaxW, MaxH>>}

Images == {PaletteImage(size[1], size[2], k) : size \in Sizes, k \in {0, 2}}

Settings(redSensitivity, lightnessThreshold, chromaThreshold, targetColor, detectionMode) ==
    [redSensitivity |-> redSensitivity, lightnessThreshold |-> lightnessThreshold,
     edgeSoftness |-> 2, chromaThreshold |-> chromaThreshold,
     targetColor |-> targetColor, detectionMode |-> detectionMode]

\* App.tsx DEFAULT_SETTINGS, and what the mode buttons and the colour picker make of it
SettingsSet ==
    {Settings(50, 220, 15, Red, "red"), Settings(50, 220, 15, Slate, "red"),
     Settings(50, 220, 15, Slate, "black"), Settings(50, 220, 15, BadInput, "black")}

BlankCanvas(width, height, ctx) ==
    [width |-> width, height |-> height, ctx |-> ctx, bitmap |-> Blank(width * height)]

(***************************************************************************)
(* Spec: processSealImage called again and again, on either canvas, with   *)
(* any image and settings, or with its own output and the same settings.   *)
(***************************************************************************)
Init ==
    /\ canvas \in [Canvases -> {BlankCanvas(MaxW, 1, ctx) : ctx \in BOOLEAN}]
    /\ call = [c \in Canvases |-> NoCall]
    /\ svg = NoSvg
    /\ upscaled = NoUpscale
    /\ analysis = NoAnalysis
    /\ app = NoApp

Process(c) ==
    \E originalImage \in Images, settings \in SettingsSet :
        ProcessSealImage(c, originalImage, settings, 0, {})

\* processSealImage run again on its own output: the source is the image that
\* canvas d holds, the settings are those of the call that produced it.
Rerun(c, d) ==
    /\ call[d].ran
    /\ call[d].gen < MaxGen
    /\ \E settings \in call[d].settings :
        ProcessSealImage(c, CanvasImage(canvas[d]), settings,
                         call[d].gen + 1, call[d].settings)

Next ==
    \/ \E c \in Canvases : Process(c)
    \/ \E c, d \in Canvases : Rerun(c, d)

Spec == Init /\ [][Next]_vars

(***************************************************************************)
(* Claims about processSealImage, checked under Spec.  Ran(c): the last    *)
(* call with destination c got its drawing context and ran to line 68, so  *)
(* call[c].data is its output buffer and canvas[c] holds what it put.      *)
(***************************************************************************)
Ran(c) == call[c].made /\ call[c].ran

SettingsOf(c) == CHOOSE s \in call[c].settings : TRUE

SameRgb(p, q) == p.r = q.r /\ p.g = q.g /\ p.b = q.b

\* C3: after processSealImage every pixel of the output buffer, and of the
\* canvas it was put on, has alpha 0 or 255, whatever alpha the source had.
C3_AlphaIsBinary ==
    \A c \in Canvases :
        Ran(c) =>
            /\ \A i \in 1..Len(call[c].data) : call[c].data[i].a \in {0, 255}
            /\ \A i \in 1..Len(canvas[c].bitmap) : canvas[c].bitmap[i].a \in {0, 255}

\* a pass has run over a source pixel of intermediate alpha
C3_Witness ==
    \E c \in Canvases :
        /\ Ran(c)
        /\ \E i \in 1..Len(call[c].source) : call[c].source[i].a \notin {0, 255}
        /\ \E i \in 1..Len(call[c].data) : call[c].data[i].a = 0
        /\ \E i \in 1..Len(call[c].data) : call[c].data[i].a = 255

\* C4: after processSealImage every pixel of alpha 255 has exactly the RGB
\* that settings.targetColor spells, whatever its colour was, and every other
\* pixel still has the RGB that was read for it.
C4_KeptPixelsGetTargetColor ==
    LET \* the colours the strings of SettingsSet spell, worked out by hand
        ExpectedRgb(targetColor) ==
            IF targetColor = Slate THEN [r |-> 30, g |-> 41, b |-> 59]
            ELSE [r |-> 217, g |-> 0, b |-> 0]
    IN  \A c \in Canvases :
            Ran(c) =>
                \A i \in 1..Len(call[c].data) :
                    IF call[c].data[i].a = 255
                    THEN SameRgb(call[c].data[i], ExpectedRgb(SettingsOf(c).targetColor))
                    ELSE SameRgb(call[c].data[i], call[c].source[i])

\* a pass has recoloured a pixel of another colour and rejected a coloured one
C4_Witness ==
    \E c \in Canvases :
        /\ Ran(c)
        /\ \E i \in 1..Len(call[c].data) :
              /\ call[c].data[i].a = 255
              /\ ~SameRgb(call[c].source[i], call[c].data[i])
        /\ \E i \in 1..Len(call[c].data) :
              /\ call[c].data[i].a = 0
              /\ call[c].data[i].r > 0

\* The output on canvas c, as an image.
Output(c) == CanvasImage(canvas[c])

HasOpaque(image) == \E i \in 1..Len(image.data) : image.data[i].a = 255
HasTransparent(image) == \E i \in 1..Len(image.data) : image.data[i].a = 0

\* C7 as claimed: processSealImage run on its own output with the same
\* settings yields a byte-identical output, for every image and settings.
C7_Idempotent ==
    \A c \in Canvases :
        (Ran(c) /\ call[c].gen > 0 /\ call[c].fromSettings = call[c].settings)
            => Output(c) = call[c].originalImage

\* The classifier's verdict on a colour.
Keeps(settings, rgb) ==
    ShouldKeep([r |-> rgb.r, g |-> rgb.g, b |-> rgb.b, a |-> 255], settings,
               RRatio(settings.redSensitivity))

\* Every colour of the first output gets its first verdict again: the target
\* colour is kept if a pixel was kept, (0,0,0) is rejected if one was rejected.
VerdictsRepeat(c) ==
    /\ HasOpaque(call[c].originalImage)
          => Keeps(SettingsOf(c), hexToRgb(SettingsOf(c).targetColor))
    /\ HasTransparent(call[c].originalImage)
          => ~Keeps(SettingsOf(c), TransparentBlack)

\* C7 amended: the second output is byte-identical to the first exactly when
\* the classifier keeps the target colour (if any pixel was kept) and rejects
\* the colour (0,0,0) that a transparent pixel reads as (if any was rejected).
C7_IdempotentWhenVerdictsRepeat ==
    \A c \in Canvases :
        (Ran(c) /\ call[c].gen > 0 /\ call[c].fromSettings = call[c].settings)
            => (Output(c) = call[c].originalImage <=> VerdictsRepeat(c))

\* a second pass over an output with kept and rejected pixels left it as it was
C7_Witness ==
    \E c \in Canvases :
        /\ Ran(c) /\ call[c].gen > 0 /\ call[c].fromSettings = call[c].settings
        /\ HasOpaque(call[c].originalImage)
        /\ HasTransparent(call[c].originalImage)
        /\ Output(c) = call[c].originalImage

\* C8: two calls with the same image and settings leave the same dimensions
\* and bytes, whatever was called before them and whatever canvas they wrote.
C8_Deterministic ==
    \A c, d \in Canvases :
        (/\ Ran(c) /\ Ran(d)
         /\ call[c].originalImage = call[d].originalImage
         /\ call[c].settings = call[d].settings)
            => /\ canvas[c].width = canvas[d].width
               /\ canvas[c].height = canvas[d].height
               /\ canvas[c].bitmap = canvas[d].bitmap
               /\ call[c].data = call[d].data

\* both canvases hold the output of the same call, one of them after an
\* earlier pass over its own output
C8_Witness ==
    /\ Ran("processed") /\ Ran("upscale")
    /\ call["processed"].originalImage = call["upscale"].originalImage
    /\ call["processed"].settings = call["upscale"].settings
    /\ call["processed"].gen = 0
    /\ call["upscale"].gen = 0
    /\ HasOpaque(Output("processed"))
    /\ \E i \in 1..Len(call["processed"].originalImage.data) :
          call["processed"].originalImage.data[i].a = 0

\* C9: after processSealImage the destination has exactly the width and
\* height of the source image, and the output buffer width * height pixels.
C9_OutputHasImageSize ==
    \A c \in Canvases :
        Ran(c) =>
            /\ canvas[c].width = call[c].originalImage.width
            /\ canvas[c].height = call[c].originalImage.height
            /\ Len(canvas[c].bitmap) = canvas[c].width * canvas[c].height
            /\ Len(call[c].data) = call[c].originalImage.width * call[c].originalImage.height

\* a destination that was MaxW x 1 now holds an image of another width and height
C9_Witness ==
    \E c \in Canvases :
        /\ Ran(c)
        /\ canvas[c].width < MaxW
        /\ canvas[c].height > 1

\* C17: a call of processSealImage whose destination cannot supply a drawing
\* context returns with the destination's width, height and pixels as they
\* were before the call.
C17_NoContextLeavesDestination ==
    [][\A c \in Canvases : ~canvas[c].ctx => canvas'[c] = canvas[c]]_vars

\* a call with an image of another size than its destination found no context
C17_Witness ==
    \E c \in Canvases :
        /\ call[c].made
        /\ ~call[c].ran
        /\ ~canvas[c].ctx
        /\ call[c].originalImage.width # canvas[c].width
        /\ call[c].originalImage.height # canvas[c].height
        /\ canvas[c] = BlankCanvas(MaxW, 1, FALSE)

(***************************************************************************)
(* SpecPixel: the classifier on one opaque pixel.  The first call draws    *)
(* the pixel and the settings; the second runs the same pixel, on the      *)
(* other canvas, with settings that differ from the first in one field.    *)
(***************************************************************************)
\* the pixels of the spec's scenarios and pixels on either side of each
\* comparison of lines 44-52
Pixels ==
    {<<200, 30, 30>>, <<250, 250, 250>>, <<200, 150, 30>>, <<255, 0, 0>>,
     <<29, 25, 0>>, <<116, 100, 0>>, <<117, 100, 0>>,
     <<150, 100, 0>>, <<151, 100, 0>>, <<45, 30, 0>>, <<44, 30, 0>>,
     <<255, 203, 202>>, <<255, 203, 203>>,
     <<20, 20, 20>>, <<35, 35, 35>>, <<35, 35, 34>>, <<100, 100, 100>>,
     <<25, 0, 0>>, <<24, 0, 0>>, <<0, 0, 0>>}

OnePixel(p) == [width |-> 1, height |-> 1, data |-> <<Rgba(p[1], p[2], p[3], 255)>>]

\* App.tsx: the sensitivity slider runs 0..100, the background slider 100..255
Sensitivities == {0, 16, 50, 100}
Thresholds == {100, 220, 255}
Chromas == {0, 15, 100}
\* App.tsx: DEFAULT_SETTINGS has 2, ProcessingSettings declares a number
EdgeSoftnesses == {0, 2, 10}

PixelSettings ==
    {[Settings(rs, lt, ch, Red, mode) EXCEPT !.edgeSoftness = es] :
        rs \in Sensitivities, lt \in Thresholds, ch \in Chromas,
        mode \in {"red", "black"}, es \in EdgeSoftnesses}

DifferInOneField(s, t) ==
    /\ s.targetColor = t.targetColor
    /\ Cardinality({f \in {"redSensitivity", "lightnessThreshold", "edgeSoftness",
                           "chromaThreshold", "detectionMode"} : s[f] # t[f]}) = 1

InitPixel ==
    /\ canvas = [c \in Canvases |-> BlankCanvas(1, 1, TRUE)]
    /\ call = [c \in Canvases |-> NoCall]
    /\ svg = NoSvg
    /\ upscaled = NoUpscale
    /\ analysis = NoAnalysis
    /\ app = NoApp

FirstPass ==
    /\ ~call["processed"].made
    /\ \E p \in Pixels, settings \in PixelSettings :
          ProcessSealImage("processed", OnePixel(p), settings, 0, {})

SecondPass ==
    /\ call["processed"].made
    /\ ~call["upscale"].made
    /\ \E settings \in PixelSettings :
          /\ DifferInOneField(SettingsOf("processed"), settings)
          /\ ProcessSealImage("upscale", call["processed"].originalImage, settings, 0, {})

NextPixel == FirstPass \/ SecondPass

SpecPixel == InitPixel /\ [][NextPixel]_vars

\* the verdict of the call on canvas c on its first pixel
Kept(c) == call[c].data[1].a = 255

InMode(c, mode) == Ran(c) /\ SettingsOf(c).detectionMode = mode

\* C1 as claimed: in red mode a pixel is kept if and only if
\* (r+g+b)/3 <= lightnessThreshold and r > g*rRatio and r > b*rRatio and
\* r - max(g,b) >= chromaThreshold, with rRatio = 1 + redSensitivity/100.
C1_RedRuleDecides ==
    LET \* the claim's rule, its inequalities multiplied by 3 and by 100
        RedRule(px, s) ==
            /\ px.r + px.g + px.b <= 3 * s.lightnessThreshold
            /\ 100 * px.r > px.g * (100 + s.redSensitivity)
            /\ 100 * px.r > px.b * (100 + s.redSensitivity)
            /\ px.r - Max2(px.g, px.b) >= s.chromaThreshold
    IN  \A c \in Canvases :
            InMode(c, "red") => (Kept(c) <=> RedRule(call[c].source[1], SettingsOf(c)))

\* C2: in black mode a pixel is kept if and only if
\* (r+g+b)/3 < 255 - lightnessThreshold and max(r,g,b) - min(r,g,b) <
\* redSensitivity/2, both comparisons strict.
C2_BlackRuleDecides ==
    LET \* the claim's rule, its inequalities multiplied by 3 and by 2
        BlackRule(px, s) ==
            /\ px.r + px.g + px.b < 3 * (255 - s.lightnessThreshold)
            /\ 2 * (Max3(px.r, px.g, px.b) - Min3(px.r, px.g, px.b)) < s.redSensitivity
    IN  \A c \in Canvases :
            InMode(c, "black") => (Kept(c) <=> BlackRule(call[c].source[1], SettingsOf(c)))

\* a grey pixel whose lightness is exactly 255 - lightnessThreshold was rejected
C2_Witness ==
    \E c \in Canvases :
        /\ InMode(c, "black")
        /\ LET px == call[c].source[1]
               s  == SettingsOf(c)
           IN  /\ px.r + px.g + px.b = 3 * (255 - s.lightnessThreshold)
               /\ 2 * Saturation(px) < s.redSensitivity
               /\ px.r > 0
        /\ ~Kept(c)

\* C5 as claimed: in red mode, the pixel and the other settings fixed, a
\* pixel kept at one redSensitivity is kept at every higher one.
C5_RaisingSensitivityKeepsMore ==
    \A c, d \in Canvases :
        (/\ InMode(c, "red") /\ InMode(d, "red")
         /\ SettingsOf(c).redSensitivity < SettingsOf(d).redSensitivity)
            => (Kept(c) => Kept(d))

\* C6 as claimed: in black mode, the pixel and the other settings fixed, a
\* pixel kept at one lightnessThreshold is kept at every higher one.
C6_RaisingThresholdKeepsMore ==
    \A c, d \in Canvases :
        (/\ InMode(c, "black") /\ InMode(d, "black")
         /\ SettingsOf(c).lightnessThreshold < SettingsOf(d).lightnessThreshold)
            => (Kept(c) => Kept(d))

\* C6 amended: in black mode, the pixel and the other settings fixed, a pixel
\* rejected at one lightnessThreshold is rejected at every higher one: a
\* larger lightnessThreshold narrows the darkness-acceptance window.
C6_RaisingThresholdKeepsLess ==
    \A c, d \in Canvases :
        (/\ InMode(c, "black") /\ InMode(d, "black")
         /\ SettingsOf(c).lightnessThreshold < SettingsOf(d).lightnessThreshold)
            => (Kept(d) => Kept(c))

\* a pixel kept in black mode was rejected at a higher lightnessThreshold
C6_Witness ==
    \E c, d \in Canvases :
        /\ InMode(c, "black") /\ InMode(d, "black")
        /\ SettingsOf(c).lightnessThreshold < SettingsOf(d).lightnessThreshold
        /\ Kept(c)
        /\ ~Kept(d)

\* C19: two calls of processSealImage on the same image whose settings
\* differ only in edgeSoftness leave byte-identical output buffers.
C19_EdgeSoftnessIsInert ==
    \A c, d \in Canvases :
        (/\ Ran(c) /\ Ran(d)
         /\ call[c].originalImage = call[d].originalImage
         /\ [SettingsOf(c) EXCEPT !.edgeSoftness = 0]
               = [SettingsOf(d) EXCEPT !.edgeSoftness = 0])
            => /\ call[c].data = call[d].data
               /\ canvas[c].bitmap = canvas[d].bitmap

\* a pixel was kept by two calls that differ in edgeSoftness
C19_Witness ==
    /\ Ran("processed") /\ Ran("upscale")
    /\ SettingsOf("processed").edgeSoftness # SettingsOf("upscale").edgeSoftness
    /\ Kept("processed")
    /\ Kept("upscale")

(***************************************************************************)
(* SpecTrace: traceToSvg on a surface of at most MaxTracePixels pixels     *)
(* whose alphas lie at the ends of the byte range or on either side of     *)
(* the tracer's cut at 128.                                                *)
(***************************************************************************)
AlphaPairs == {{0, 255}, {128, 129}}

Shapes ==
    {wh \in (1..MaxTracePixels) \X (1..MaxTracePixels) : wh[1] * wh[2] <= MaxTracePixels}

Surface(w, h, alphas) ==
    [width |-> w, height |-> h, ctx |-> TRUE,
     bitmap |-> [i \in 1..(w * h) |-> Premultiply(Rgba(217, 0, 0, alphas[i]))]]

Surfaces ==
    UNION {{Surface(wh[1], wh[2], alphas) : alphas \in [1..(wh[1] * wh[2]) -> pair]} :
              wh \in Shapes, pair \in AlphaPairs}

InitTrace ==
    /\ \E surface \in Surfaces \cup {BlankCanvas(1, 1, FALSE)} :
          canvas = [c \in Canvases |->
                       IF c = "processed" THEN surface ELSE BlankCanvas(1, 1, TRUE)]
    /\ call = [c \in Canvases |-> NoCall]
    /\ svg = NoSvg
    /\ upscaled = NoUpscale
    /\ analysis = NoAnalysis
    /\ app = NoApp

NextTrace == \E c \in Canvases, outcome \in TracerOutcomes : TraceToSvg(c, outcome)

SpecTrace == InitTrace /\ [][NextTrace]_vars

\* the alpha of the pixel at column x of row y, as getImageData reads it
AlphaAt(cv, x, y) == GetImageData(cv, cv.width, cv.height)[y * cv.width + x + 1].a

Opaque(cv, x, y) == x >= 0 /\ x < cv.width /\ AlphaAt(cv, x, y) > 128

\* the column after the last pixel of the maximal run that starts at x
RunEnd(cv, x, y) ==
    CHOOSE e \in (x + 1)..cv.width :
        /\ \A k \in x..(e - 1) : Opaque(cv, k, y)
        /\ ~Opaque(cv, e, y)

\* the commands of the maximal runs that start at pixel i or later, rows
\* first, i counting the pixels row by row from 0
RECURSIVE RunCommands(_, _)
RunCommands(cv, i) ==
    IF i >= cv.width * cv.height THEN ""
    ELSE LET x == i % cv.width
             y == i \div cv.width
         IN  IF Opaque(cv, x, y) /\ ~Opaque(cv, x - 1, y)
             THEN "M" \o ToString(x) \o "," \o ToString(y)
                      \o "h" \o ToString(RunEnd(cv, x, y) - x)
                      \o "v1h-" \o ToString(RunEnd(cv, x, y) - x) \o "z "
                      \o RunCommands(cv, i + 1)
             ELSE RunCommands(cv, i + 1)

\* C10: the fallback tracer's path data is one command M<x>,<y>h<len>v1h-<len>z
\* for each maximal run of pixels with alpha > 128 in a row, x its first
\* column and len its length, a run that reaches the right edge included,
\* the commands in row-major order.
C10_OneCommandPerRun ==
    (svg.tracer = "fallback" /\ canvas[svg.of].ctx)
        => svg.text = SvgDocument(canvas[svg.of].width, canvas[svg.of].height,
                                  RunCommands(canvas[svg.of], 0))

\* the 3x3 surface whose opaque pixels are those of row 0, traced by the fallback
C10_Witness ==
    /\ svg.tracer = "fallback"
    /\ canvas[svg.of].width = 3
    /\ canvas[svg.of].height = 3
    /\ \A x, y \in 0..2 : Opaque(canvas[svg.of], x, y) <=> y = 0
    /\ svg.text = SvgDocument(3, 3, "M0,0h3v1h-3z ")

\* C12: with the primary tracer absent, traceToSvg on a surface that has a
\* drawing context and at least one pixel, whatever its pixels and even if
\* none has alpha > 128, returns a non-empty well-formed SVG document (one
\* svg root holding one path element) and raises nothing.
C12_FallbackReturnsSvg ==
    LET cv == canvas[svg.of]
        Document(d) ==
            "<svg xmlns=\"http://www.w3.org/2000/svg\" viewBox=\"0 0 "
                \o ToString(cv.width) \o " " \o ToString(cv.height)
                \o "\" width=\"" \o ToString(cv.width)
                \o "\" height=\"" \o ToString(cv.height)
                \o "\"><path d=\"" \o d \o "\" fill=\"currentColor\"/></svg>"
    IN  (svg.tracer = "fallback" /\ cv.ctx /\ cv.width > 0 /\ cv.height > 0)
            => /\ svg.threw = None
               /\ svg.text # ""
               /\ svg.text = Document(RunCommands(cv, 0))

\* the fallback has traced a surface with a context and no pixel of alpha > 128
C12_Witness ==
    /\ svg.tracer = "fallback"
    /\ canvas[svg.of].ctx
    /\ canvas[svg.of].width = 2
    /\ canvas[svg.of].height = 1
    /\ \A x \in 0..1 : AlphaAt(canvas[svg.of], x, 0) = 128
    /\ svg.text = "<svg xmlns=\"http://www.w3.org/2000/svg\" viewBox=\"0 0 2 1\" width=\"2\" height=\"1\"><path d=\"\" fill=\"currentColor\"/></svg>"

\* C13 as claimed: when the surface has no drawing context the fallback
\* tracer returns an SVG document with an svg root and no shapes.
C13_NoContextGivesEmptyDocument ==
    (svg.tracer = "fallback" /\ ~canvas[svg.of].ctx)
        => /\ svg.threw = None
           /\ svg.text = SvgDocument(canvas[svg.of].width, canvas[svg.of].height, "")

\* C13 amended: when the surface has no drawing context the fallback tracer
\* raises nothing and returns the empty string, which is no SVG document.
C13_NoContextGivesEmptyString ==
    (svg.tracer = "fallback" /\ ~canvas[svg.of].ctx)
        => (svg.threw = None /\ svg.text = "")

\* the fallback has traced a surface without a drawing context
C13_Witness ==
    /\ svg.tracer = "fallback"
    /\ ~canvas[svg.of].ctx
    /\ svg.text = ""

(***************************************************************************)
(* SpecUpscale: the processed canvas holds a surface of at most MaxW x     *)
(* MaxH pixels; upscaleAndSharpen stretches it onto the upscale canvas,    *)
(* and traceToSvg traces either canvas.                                    *)
(***************************************************************************)
\* scale: App.tsx calls handleUpscale(2); the function takes any number
Scales ==
    {[num |-> 1, den |-> 2], [num |-> 1, den |-> 1],
     [num |-> 3, den |-> 2], [num |-> 2, den |-> 1]}

\* the canvases that hold a palette image of at most MaxW x MaxH pixels
SmallSurfaces ==
    {[width |-> w, height |-> h, ctx |-> TRUE,
      bitmap |-> [i \in 1..(w * h) |-> Premultiply(PaletteImage(w, h, k).data[i])]] :
        w \in 1..MaxW, h \in 1..MaxH, k \in {0, 2}}

InitUpscale ==
    /\ \E surface \in SmallSurfaces, ctx \in BOOLEAN :
          canvas = [c \in Canvases |->
                       IF c = "processed" THEN surface ELSE BlankCanvas(MaxW, 1, ctx)]
    /\ call = [c \in Canvases |-> NoCall]
    /\ svg = NoSvg
    /\ upscaled = NoUpscale
    /\ analysis = NoAnalysis
    /\ app = NoApp

\* App.tsx handleUpscale: processed canvas to upscale canvas
Upscale ==
    \E scale \in Scales, sampler \in Samplers :
        UpscaleAndSharpen("processed", "upscale", scale, sampler)

NextUpscale ==
    \/ Upscale
    \/ \E c \in Canvases, outcome \in TracerOutcomes : TraceToSvg(c, outcome)

SpecUpscale == InitUpscale /\ [][NextUpscale]_vars

\* C11 as claimed: traceToSvg raises nothing; with ImageTracer absent, and
\* with getSVGString throwing, it returns what the fallback tracer returns
\* for the same canvas, the same string in both cases.
C11_NeverPropagates ==
    [][\A c \in Canvases, outcome \in {"undefined", "throws"} :
          TraceToSvg(c, outcome)
              => /\ svg'.threw = None
                 /\ svg'.text = generateFallbackSvg(canvas[c])]_vars

C18_NoContextLeavesTarget ==
    (upscaled.made /\ ~upscaled.ran)
        => /\ canvas["upscale"].width = upscaled.before.width
           /\ canvas["upscale"].height = upscaled.before.height

(***************************************************************************)
(* SpecColor: hexToRgb on colour strings, seen through the colour that     *)
(* processSealImage gives a kept pixel.                                    *)
(***************************************************************************)
\* the characters colour strings are made of: the 22 hexadecimal digits and
\* some that are none
Characters ==
    {HexDigits[i] : i \in 1..16} \cup {UpperHexDigits[i] : i \in 1..16}
        \cup {"g", "G", "#", "-", " "}

\* six characters, all "0" but the two of one group
Sextets ==
    {[i \in 1..6 |-> IF i = 2 * k - 1 THEN x ELSE IF i = 2 * k THEN y ELSE "0"] :
        x \in Characters, y \in Characters, k \in 1..3}

\* 3-digit and 8-digit forms, names, the empty string, stray characters
OtherStrings ==
    {<<>>, BadInput, Red, Slate,
     <<"#", "d", "9", "0">>, <<"#", "f", "0", "0">>, <<"d", "9", "0">>,
     <<"#", "0", "0", "0", "0", "f", "f", "0", "0">>,
     <<"#", "1", "e", "2", "9", "3", "b", "f", "f">>,
     <<"0", "0", "0", "0", "f", "f", "0", "0">>,
     <<"r", "e", "d">>, <<"b", "l", "u", "e">>, <<"#">>, <<"#", "#">>,
     <<"#", "1", "e", "2", "9", "3">>, <<"#", "1", "e", "2", "9", "3", "b", "0">>,
     <<"#", "#", "1", "e", "2", "9", "3", "b">>,
     <<" ", "#", "1", "e", "2", "9", "3", "b">>,
     <<"#", "1", "e", "2", "9", "3", "b", " ">>,
     <<"1", "e", "2", "9", "3", "b", "#">>,
     <<"#", "F", "F", "F", "F", "F", "F">>, <<"#", "a", "B", "c", "D", "e", "F">>,
     <<"a", "B", "c", "D", "e", "F">>}

ColorStrings ==
    Sextets \cup {<<"#">> \o digits : digits \in Sextets} \cup OtherStrings

InitColor ==
    /\ canvas = [c \in Canvases |-> BlankCanvas(1, 1, TRUE)]
    /\ call = [c \in Canvases |-> NoCall]
    /\ svg = NoSvg
    /\ upscaled = NoUpscale
    /\ analysis = NoAnalysis
    /\ app = NoApp

\* a red-ink pixel, kept under DEFAULT_SETTINGS, recoloured to the target
Recolour ==
    /\ ~call["processed"].made
    /\ \E targetColor \in ColorStrings :
          ProcessSealImage("processed", OnePixel(<<200, 30, 30>>),
                           Settings(50, 220, 15, targetColor, "red"), 0, {})

NextColor == Recolour

SpecColor == InitColor /\ [][NextColor]_vars

\* the colour the call on the processed canvas gave its kept pixel
Recoloured == [r |-> call["processed"].data[1].r, g |-> call["processed"].data[1].g,
               b |-> call["processed"].data[1].b]

\* what parseInt(ch, 16) gives for one character, -1 standing for NaN
DigitValue(ch) ==
    CASE ch \in {"0"} -> 0 [] ch \in {"1"} -> 1 [] ch \in {"2"} -> 2
      [] ch \in {"3"} -> 3 [] ch \in {"4"} -> 4 [] ch \in {"5"} -> 5
      [] ch \in {"6"} -> 6 [] ch \in {"7"} -> 7 [] ch \in {"8"} -> 8
      [] ch \in {"9"} -> 9 [] ch \in {"a", "A"} -> 10
      [] ch \in {"b", "B"} -> 11 [] ch \in {"c", "C"} -> 12
      [] ch \in {"d", "D"} -> 13 [] ch \in {"e", "E"} -> 14
      [] ch \in {"f", "F"} -> 15 [] OTHER -> -1

\* the colour six hexadecimal digits spell, two digits a component
ValueTriple(digits) ==
    [r |-> 16 * DigitValue(digits[1]) + DigitValue(digits[2]),
     g |-> 16 * DigitValue(digits[3]) + DigitValue(digits[4]),
     b |-> 16 * DigitValue(digits[5]) + DigitValue(digits[6])]

\* C14: a string made of '#' and exactly six hexadecimal digits, of either
\* case, is parsed to (value of digits 1-2, value of digits 3-4, value of
\* digits 5-6), each in 0..255; '#d90000' gives (217,0,0).
C14_SixDigitsParse ==
    LET hex == SettingsOf("processed").targetColor
    IN  (/\ Ran("processed")
         /\ Len(hex) = 7
         /\ hex[1] = "#"
         /\ \A i \in 2..7 : DigitValue(hex[i]) >= 0)
            => /\ Recoloured = ValueTriple(Tail(hex))
               /\ Recoloured.r \in 0..255
               /\ Recoloured.g \in 0..255
               /\ Recoloured.b \in 0..255
               /\ (hex = <<"#", "d", "9", "0", "0", "0", "0">>
                      => Recoloured = [r |-> 217, g |-> 0, b |-> 0])

\* a pixel was recoloured with a mixed-case six-digit string
C14_Witness ==
    /\ Ran("processed")
    /\ SettingsOf("processed").targetColor = <<"#", "a", "B", "c", "D", "e", "F">>
    /\ Recoloured = [r |-> 171, g |-> 205, b |-> 239]

\* '#' followed by exactly six hexadecimal digits
IsHashAndSixDigits(hex) ==
    /\ Len(hex) = 7
    /\ hex[1] = "#"
    /\ \A i \in 2..7 : DigitValue(hex[i]) >= 0

\* C15 as claimed: a string that is not '#' followed by exactly six
\* hexadecimal digits is parsed to (217,0,0), and kept pixels get that colour.
C15_OthersGetDefault ==
    (Ran("processed") /\ ~IsHashAndSixDigits(SettingsOf("processed").targetColor))
        => Recoloured = [r |-> 217, g |-> 0, b |-> 0]

\* C15 amended: a string that is neither '#' followed by exactly six
\* hexadecimal digits nor exactly six hexadecimal digits is parsed to
\* (217,0,0), and kept pixels get that colour; six hexadecimal digits without
\* the '#' are parsed as they are with it.
C15_OthersButBareDigitsGetDefault ==
    LET hex == SettingsOf("processed").targetColor
    IN  Ran("processed") =>
            IF IsHashAndSixDigits(hex) THEN TRUE
            ELSE IF IsHashAndSixDigits(<<"#">> \o hex)
            THEN Recoloured = ValueTriple(hex)
            ELSE Recoloured = [r |-> 217, g |-> 0, b |-> 0]

\* a pixel was recoloured with the 8-digit form of a colour that is not the default
C15_Witness ==
    /\ Ran("processed")
    /\ SettingsOf("processed").targetColor
          = <<"#", "0", "0", "0", "0", "f", "f", "0", "0">>
    /\ Recoloured = [r |-> 217, g |-> 0, b |-> 0]

(***************************************************************************)
(* SpecAnalysis: the page with the analysis collaborator beside it.  An    *)
(* image is processed onto the processed canvas, upscaled onto the         *)
(* upscale canvas and traced, while analyzeSealImage is called and its     *)
(* remote call ends in any way, or never.                                  *)
(***************************************************************************)
DefaultSettings == Settings(50, 220, 15, Red, "red")

AnalysisImages == {PaletteImage(1, 1, 0), PaletteImage(MaxW, MaxH, 0)}

InitAnalysis ==
    /\ canvas = [c \in Canvases |-> BlankCanvas(MaxW, 1, TRUE)]
    /\ call = [c \in Canvases |-> NoCall]
    /\ svg = NoSvg
    /\ upscaled = NoUpscale
    /\ analysis = NoAnalysis
    /\ app = NoApp

\* App.tsx performProcessing
ProcessUpload ==
    \E originalImage \in AnalysisImages :
        ProcessSealImage("processed", originalImage, DefaultSettings, 0, {})

\* App.tsx handleUpscale(2)
UpscaleTwice ==
    \E sampler \in Samplers :
        UpscaleAndSharpen("processed", "upscale", [num |-> 2, den |-> 1], sampler)

\* App.tsx handleDownloadVector
DownloadVector ==
    \E c \in Canvases, outcome \in TracerOutcomes : TraceToSvg(c, outcome)

NextAnalysis ==
    \/ ProcessUpload
    \/ UpscaleTwice
    \/ DownloadVector
    \/ AnalyzeSealImage
    \/ \E outcome \in RemoteOutcomes : SettleAnalysis(outcome)

SpecAnalysis == InitAnalysis /\ [][NextAnalysis]_vars

\* what processSealImage leaves of originalImage under settings on a canvas
\* that has a context
Processed(cv, originalImage, settings) ==
    LET drawn == Prepare(cv, originalImage)
    IN  PutImageData(drawn,
                     Sweep(GetImageData(drawn, originalImage.width, originalImage.height),
                           settings),
                     originalImage.width, originalImage.height)

\* C20: the promise of analyzeSealImage is never rejected and resolves to a
\* non-empty string however the remote call ends; whatever state the analysis
\* is in, upscaleAndSharpen and traceToSvg can run, the output of
\* processSealImage is the one its image and settings determine, a step of
\* the analysis changes no canvas and no result, and every other step is a
\* step of processSealImage, upscaleAndSharpen or traceToSvg.
C20_AnalysisIsOptional ==
    /\ [](/\ analysis.state \in {"idle", "pending", "resolved"}
          /\ analysis.state = "resolved" => analysis.text # "")
    /\ [](ENABLED UpscaleTwice /\ ENABLED DownloadVector)
    /\ [](Ran("processed")
             => canvas["processed"]
                  = Processed(BlankCanvas(MaxW, 1, TRUE),
                              call["processed"].originalImage, SettingsOf("processed")))
    /\ [][analysis' # analysis => UNCHANGED <<canvas, call, svg, upscaled>>]_vars
    /\ [][analysis' = analysis
             => \/ \E originalImage \in AnalysisImages :
                      canvas'["processed"]
                        = Processed(canvas["processed"], originalImage, DefaultSettings)
                \/ upscaled'.made /\ upscaled' # upscaled
                \/ svg' # svg
                \/ UNCHANGED <<canvas, call, svg, upscaled>>]_vars

\* the remote call failed and the promise resolved to the fallback string,
\* with an image processed, upscaled and traced
C20_Witness ==
    /\ analysis.state = "resolved"
    /\ analysis.text = "Could not perform AI analysis at this time."
    /\ Ran("processed")
    /\ HasOpaque(Output("processed"))
    /\ upscaled.ran
    /\ svg.tracer = "fallback"

(***************************************************************************)
(* The fallback document and the primary tracer, checked under SpecTrace.  *)
(***************************************************************************)
\* the pixels a rectangle of the path covers
Covers(rect, x, y) == y = rect.y /\ x >= rect.x /\ x < rect.x + rect.len

\* C21: for every readable w x h surface the fallback SVG is one svg root
\* whose viewBox is "0 0 w h" and whose only child is one path element with
\* fill currentColor; when no pixel has alpha > 128 the path data is empty.
C21_OneRootOnePath ==
    LET cv == canvas[svg.of]
        Root(child) ==
            "<svg xmlns=\"http://www.w3.org/2000/svg\" viewBox=\"0 0 "
                \o ToString(cv.width) \o " " \o ToString(cv.height)
                \o "\" width=\"" \o ToString(cv.width)
                \o "\" height=\"" \o ToString(cv.height) \o "\">"
                \o child \o "</svg>"
        Path(d) == "<path d=\"" \o d \o "\" fill=\"currentColor\"/>"
        NoInk == \A x \in 0..(cv.width - 1), y \in 0..(cv.height - 1) :
                     ~Opaque(cv, x, y)
    IN  (svg.tracer = "fallback" /\ cv.ctx /\ cv.width > 0 /\ cv.height > 0)
            => /\ svg.text = Root(Path(PathData(svg.paths)))
               /\ NoInk => svg.text = Root(Path(""))

\* the fallback has traced a 2 x 3 surface on which no pixel has alpha > 128
C21_Witness ==
    /\ svg.tracer = "fallback"
    /\ canvas[svg.of].ctx
    /\ canvas[svg.of].width = 2
    /\ canvas[svg.of].height = 3
    /\ \A x \in 0..1, y \in 0..2 : AlphaAt(canvas[svg.of], x, y) = 0
    /\ svg.text = "<svg xmlns=\"http://www.w3.org/2000/svg\" viewBox=\"0 0 2 3\" width=\"2\" height=\"3\"><path d=\"\" fill=\"currentColor\"/></svg>"

\* C25: the rectangles of the fallback path are an exact silhouette: every
\* pixel with alpha > 128 is covered by exactly one rectangle and every
\* other pixel by none.
C25_ExactSilhouette ==
    LET cv == canvas[svg.of]
        Covering(x, y) == {i \in 1..Len(svg.paths) : Covers(svg.paths[i], x, y)}
    IN  (svg.tracer = "fallback" /\ cv.ctx /\ svg.threw = None)
            => /\ svg.text = SvgDocument(cv.width, cv.height, PathData(svg.paths))
               /\ \A i \in 1..Len(svg.paths) :
                      /\ svg.paths[i].len >= 1
                      /\ svg.paths[i].x >= 0
                      /\ svg.paths[i].x + svg.paths[i].len <= cv.width
                      /\ svg.paths[i].y \in 0..(cv.height - 1)
               /\ \A x \in 0..(cv.width - 1), y \in 0..(cv.height - 1) :
                      Cardinality(Covering(x, y))
                          = IF AlphaAt(cv, x, y) > 128 THEN 1 ELSE 0

\* the fallback has traced a 3 x 2 surface whose first row has two runs
\* around a pixel of alpha 128 and whose second row ends with a run
C25_Witness ==
    /\ svg.tracer = "fallback"
    /\ canvas[svg.of].width = 3
    /\ canvas[svg.of].height = 2
    /\ AlphaAt(canvas[svg.of], 0, 0) = 129
    /\ AlphaAt(canvas[svg.of], 1, 0) = 128
    /\ AlphaAt(canvas[svg.of], 2, 0) = 129
    /\ svg.paths = <<Rectangle(0, 0, 1), Rectangle(2, 0, 1), Rectangle(1, 1, 2)>>

\* C26: when ImageTracer is defined and getSVGString returns normally,
\* traceToSvg calls it exactly once, with the canvas and the fixed options
\* (ltres 0.1, qtres 0.1, pathomit 32, rightangleenhance true,
\* numberofcolors 2, mincolorratio 0.05, viewbox true), returns the
\* library's string unchanged, and never enters the fallback scan.
C26_PrimaryTracerFirst ==
    [][\A c \in Canvases, outcome \in {"returns", "returns empty"} :
          TraceToSvg(c, outcome)
              => /\ Len(svg'.calls) = 1
                 /\ svg'.calls[1].canvas = c
                 /\ svg'.calls[1].options.ltres = "0.1"
                 /\ svg'.calls[1].options.qtres = "0.1"
                 /\ svg'.calls[1].options.pathomit = 32
                 /\ svg'.calls[1].options.rightangleenhance = TRUE
                 /\ svg'.calls[1].options.numberofcolors = 2
                 /\ svg'.calls[1].options.mincolorratio = "0.05"
                 /\ svg'.calls[1].options.viewbox = TRUE
                 /\ svg'.threw = None
                 /\ svg'.text = LibraryString(outcome)
                 /\ svg'.scans = 0
                 /\ svg'.paths = <<>>]_vars

\* the library returned the empty string for a surface with ink, and
\* traceToSvg returned it without running the fallback
C26_Witness ==
    /\ svg.tracer = "ImageTracer"
    /\ Len(svg.calls) = 1
    /\ svg.library = ""
    /\ svg.text = ""
    /\ svg.scans = 0
    /\ \E x \in 0..(canvas[svg.of].width - 1) : Opaque(canvas[svg.of], x, 0)

(***************************************************************************)
(* Source pixels of any alpha and settings outside the sliders' ranges:    *)
(* processSealImage takes a ProcessingSettings object as it is (line 30),  *)
(* and the image may carry any alpha.  One call on each canvas; the second *)
(* repeats the first with one setting changed or with another alpha.       *)
(***************************************************************************)
SourceColours ==
    {<<200, 30, 30>>, <<200, 30, 250>>, <<20, 20, 20>>, <<0, 0, 0>>,
     <<250, 250, 250>>, <<25, 0, 0>>, <<30, 30, 200>>, <<117, 100, 0>>}

SourceAlphas == {0, 128, 255}

SourcePixel(p, a) == [width |-> 1, height |-> 1, data |-> <<Rgba(p[1], p[2], p[3], a)>>]

SourceImages ==
    {SourcePixel(p, a) : p \in SourceColours, a \in SourceAlphas} \cup Images

\* App.tsx lines 9-16: detectionMode is 'red' | 'black' | 'mixed', the
\* numbers are plain numbers
SourceModes == {"red", "black", "mixed"}
SourceChromas == {-255, -1, 0, 15}

SourceSettings ==
    {Settings(rs, lt, ch, Red, mode) :
        rs \in {0, 50, 100}, lt \in {100, 220, 255}, ch \in SourceChromas,
        mode \in SourceModes}

InitSource ==
    /\ canvas = [c \in Canvases |-> BlankCanvas(1, 1, TRUE)]
    /\ call = [c \in Canvases |-> NoCall]
    /\ svg = NoSvg
    /\ upscaled = NoUpscale
    /\ analysis = NoAnalysis
    /\ app = NoApp

FirstCall ==
    /\ ~call["processed"].made
    /\ \E originalImage \in SourceImages, settings \in SourceSettings :
          ProcessSealImage("processed", originalImage, settings, 0, {})

\* the same image again, with the mode or the chroma threshold changed
OtherSettings ==
    /\ call["processed"].made
    /\ ~call["upscale"].made
    /\ \E settings \in SourceSettings :
          /\ \E f \in {"detectionMode", "chromaThreshold"} :
                /\ settings[f] # SettingsOf("processed")[f]
                /\ settings = [SettingsOf("processed") EXCEPT ![f] = settings[f]]
          /\ ProcessSealImage("upscale", call["processed"].originalImage, settings, 0, {})

\* the same settings again, on the same colours with another alpha
OtherAlpha ==
    /\ call["processed"].made
    /\ ~call["upscale"].made
    /\ \E originalImage \in SourceImages :
          /\ originalImage.width = call["processed"].originalImage.width
          /\ originalImage.height = call["processed"].originalImage.height
          /\ originalImage # call["processed"].originalImage
          /\ \A i \in 1..Len(originalImage.data) :
                SameRgb(originalImage.data[i], call["processed"].originalImage.data[i])
          /\ ProcessSealImage("upscale", originalImage, SettingsOf("processed"), 0, {})

NextSource == FirstCall \/ OtherSettings \/ OtherAlpha

SpecSource == InitSource /\ [][NextSource]_vars

\* both calls ran, on the same image, with settings that differ in field f only
SameButFor(f) ==
    /\ Ran("processed")
    /\ Ran("upscale")
    /\ call["upscale"].originalImage = call["processed"].originalImage
    /\ SettingsOf("upscale")[f] # SettingsOf("processed")[f]
    /\ SettingsOf("upscale") = [SettingsOf("processed") EXCEPT ![f] = SettingsOf("upscale")[f]]

\* both calls ran, with the same settings, on images of equal colours
SameColours ==
    /\ Ran("processed")
    /\ Ran("upscale")
    /\ SettingsOf("upscale") = SettingsOf("processed")
    /\ Len(call["upscale"].originalImage.data) = Len(call["processed"].originalImage.data)
    /\ \A i \in 1..Len(call["processed"].originalImage.data) :
          SameRgb(call["upscale"].originalImage.data[i],
                  call["processed"].originalImage.data[i])

\* C22 as claimed: in red mode there are a pixel and in-range other settings
\* for which the pixel is rejected at chromaThreshold 0 and kept at some
\* negative chromaThreshold.  The pixel is sought among the colours of a
\* grid and the pixels the calls have read.
C22_NegativeChromaLoosens ==
    LET Grid == {0, 1, 29, 30, 100, 128, 200, 254, 255}
        Read == {call[c].source[i] : c \in {d \in Canvases : Ran(d)},
                                     i \in 1..Len(call["processed"].source)}
    IN  \E px \in {Rgba(r, g, b, 255) : r, g, b \in Grid} \cup Read :
        \E rs \in {0, 16, 50, 100}, lt \in {100, 220, 255}, ch \in {-1, -255} :
            /\ ~ShouldKeep(px, Settings(rs, lt, 0, Red, "red"), RRatio(rs))
            /\ ShouldKeep(px, Settings(rs, lt, ch, Red, "red"), RRatio(rs))

\* C22 amended: settings are not clamped, yet in red mode with the other
\* settings in range a chromaThreshold below 0 keeps exactly the pixels that
\* chromaThreshold 0 keeps: the output is the same.
C22_NegativeChromaIsZeroChroma ==
    (/\ SameButFor("chromaThreshold")
     /\ SettingsOf("processed").detectionMode = "red"
     /\ SettingsOf("processed").chromaThreshold <= 0
     /\ SettingsOf("upscale").chromaThreshold <= 0)
        => /\ call["upscale"].data = call["processed"].data
           /\ canvas["upscale"] = canvas["processed"]

\* red ink was processed with chromaThreshold 0 and with -255, and kept both times
C22_Witness ==
    /\ SameButFor("chromaThreshold")
    /\ SettingsOf("processed").detectionMode = "red"
    /\ SettingsOf("processed").chromaThreshold = 0
    /\ SettingsOf("upscale").chromaThreshold = -255
    /\ call["processed"].originalImage = SourcePixel(<<200, 30, 30>>, 255)
    /\ call["upscale"].data[1].a = 255

\* C23 as claimed: two source pixels with equal RGB and different alpha get
\* the same output pixel under the same settings.
C23_SourceAlphaIsIgnored ==
    SameColours => call["upscale"].data = call["processed"].data

\* C23 amended: classification reads only the RGB that getImageData returns:
\* pixels read back with equal RGB get the same output pixel under the same
\* settings whatever their alpha.  A fully transparent source pixel is read
\* back as black whatever its RGB was; it comes out opaque in the target
\* colour in the modes other than red when lightnessThreshold < 255 and
\* redSensitivity > 0, and transparent otherwise.
C23_ReadBackRgbDecides ==
    /\ \A c, d \in Canvases :
          (Ran(c) /\ Ran(d) /\ SettingsOf(c) = SettingsOf(d))
              => \A i \in 1..Len(call[c].source), j \in 1..Len(call[d].source) :
                    SameRgb(call[c].source[i], call[d].source[j])
                        => call[c].data[i] = call[d].data[j]
    /\ \A c \in Canvases :
          Ran(c) => \A i \in 1..Len(call[c].originalImage.data) :
              call[c].originalImage.data[i].a = 0
                  => /\ call[c].source[i] = Rgba(0, 0, 0, 0)
                     /\ call[c].data[i]
                          = IF /\ SettingsOf(c).detectionMode # "red"
                               /\ SettingsOf(c).lightnessThreshold < 255
                               /\ SettingsOf(c).redSensitivity > 0
                            THEN Rgba(217, 0, 0, 255)
                            ELSE Rgba(0, 0, 0, 0)

\* opaque red ink was kept in red mode, and the same colour fully transparent
\* was rejected under the same settings
C23_Witness ==
    /\ SameColours
    /\ SettingsOf("processed").detectionMode = "red"
    /\ call["processed"].originalImage = SourcePixel(<<200, 30, 30>>, 255)
    /\ call["upscale"].originalImage = SourcePixel(<<200, 30, 30>>, 0)
    /\ call["processed"].data[1] = Rgba(217, 0, 0, 255)
    /\ call["upscale"].data[1].a = 0

\* C24: 'mixed' is classified with the black-mode rule: for every image the
\* output under 'mixed' is byte-identical to the output under 'black' with
\* otherwise equal settings, and the call runs to its end.
C24_MixedIsBlack ==
    \A c, d \in Canvases :
        (/\ call[c].made /\ call[d].made
         /\ call[c].originalImage = call[d].originalImage
         /\ SettingsOf(c).detectionMode = "mixed"
         /\ SettingsOf(d) = [SettingsOf(c) EXCEPT !.detectionMode = "black"])
            => /\ Ran(c) /\ Ran(d)
               /\ call[c].data = call[d].data
               /\ canvas[c] = canvas[d]

\* a palette image with black and red ink was processed in black mode and in
\* mixed mode; the black ink was kept and the red ink was not
C24_Witness ==
    /\ SameButFor("detectionMode")
    /\ SettingsOf("processed").detectionMode = "black"
    /\ SettingsOf("upscale").detectionMode = "mixed"
    /\ call["upscale"].originalImage = PaletteImage(MaxW, MaxH, 0)
    /\ call["upscale"].data[1].a = 0
    /\ call["upscale"].data[3] = Rgba(217, 0, 0, 255)

(***************************************************************************)
(* The App component (App.tsx lines 145-269 and its buttons).  app holds   *)
(* its state (image, settings, processedImage, upscaledImage and the busy  *)
(* flags; a nullable state is a set of at most one element), its refs and  *)
(* the callbacks it has scheduled and that have not run:                   *)
(*   loads         the onload handlers of the Image objects of the effect, *)
(*                 each with the settings its performProcessing closed     *)
(*                 over; they fire in any order;                           *)
(*   frames        the requestAnimationFrame callbacks, run first in,      *)
(*                 first out, each with the canvas, the image and the      *)
(*                 settings it closed over;                                *)
(*   upscaleTimer, vectorTimer   the setTimeout callbacks with the         *)
(*                 canvases they closed over.                              *)
(* The two canvas elements are rendered only while image is set: every     *)
(* upload mounts a fresh pair, surfaces[m] is the pair of the m-th upload  *)
(* and canvas is the pair the refs point to.                               *)
(***************************************************************************)
MaxUploads == 2
MaxChanges == 1

\* App.tsx line 423: what the black-ink button makes of the settings
BlackSettings ==
    [DefaultSettings EXCEPT !.detectionMode = "black", !.targetColor = Slate]

AppSettings == {DefaultSettings, BlackSettings}

\* an image with no pixels, as an SVG file of zero size decodes
EmptyImage == [width |-> 0, height |-> 0, data |-> <<>>]

\* a file with one pixel of red ink, and one with no pixels
AppImages == {PaletteImage(1, 1, 0), EmptyImage}

\* lines 392-393: the two canvas elements as they are mounted
FreshCanvases == [c \in Canvases |-> BlankCanvas(MaxW, 1, TRUE)]

Two == [num |-> 2, den |-> 1]

InitApp ==
    /\ canvas = FreshCanvases
    /\ call = [c \in Canvases |-> NoCall]
    /\ svg = NoSvg
    /\ upscaled = NoUpscale
    /\ analysis = NoAnalysis
    /\ app = [image |-> {}, settings |-> DefaultSettings,
              processedImage |-> {}, upscaledImage |-> {},
              isProcessing |-> FALSE, isUpscaling |-> FALSE, isVectorizing |-> FALSE,
              mounts |-> 0,
              surfaces |-> [m \in 1..MaxUploads |-> FreshCanvases],
              loads |-> <<>>, frames |-> <<>>,
              upscaleTimer |-> {}, vectorTimer |-> {},
              changes |-> 0]

\* A canvas element can be reached through the refs while it is mounted and
\* through the callbacks that closed over it; the pairs nothing can reach any
\* more are garbage, kept here as fresh pairs.
Referenced(a, m) ==
    \/ m = a.mounts /\ a.image # {}
    \/ \E i \in 1..Len(a.frames) : a.frames[i].mount = m
    \/ \E t \in a.upscaleTimer \cup a.vectorTimer : t.mount = m

Collect(a) ==
    [a EXCEPT !.surfaces = [m \in 1..MaxUploads |->
                               IF Referenced(a, m) THEN a.surfaces[m]
                               ELSE FreshCanvases]]

\* the pair the refs point to: null while image is null
Current(a) == IF a.image = {} THEN FreshCanvases ELSE a.surfaces[a.mounts]

\* lines 211-220: the effect, run after a render in which image or
\* performProcessing changed: the loads with that render's Image added
Effect(loads, image, settings) ==
    IF image = {} THEN loads
    ELSE Append(loads, [img |-> CHOOSE img \in image : TRUE, settings |-> settings])

\* lines 174-191, reader.onload; the file input is rendered while image is null
HandleFileUpload(img) ==
    /\ app.image = {}
    /\ app.mounts < MaxUploads
    /\ app' = [app EXCEPT !.image = {img}, !.processedImage = {},
                          !.upscaledImage = {}, !.mounts = @ + 1,
                          !.loads = Effect(@, {img}, app.settings)]
    /\ canvas' = app.surfaces[app.mounts + 1]
    /\ UNCHANGED <<call, svg, upscaled, analysis>>

\* line 399: the button that sets image to null; the canvases are unmounted
ResetImage ==
    /\ app.image # {}
    /\ app' = Collect([app EXCEPT !.image = {}])
    /\ canvas' = Current(app')
    /\ UNCHANGED <<call, svg, upscaled, analysis>>

\* lines 417 and 423: a mode button
SetSettings(settings) ==
    /\ settings # app.settings
    /\ app.changes < MaxChanges
    /\ app' = [app EXCEPT !.settings = settings, !.changes = @ + 1,
                          !.loads = Effect(@, app.image, settings)]
    /\ UNCHANGED <<canvas, call, svg, upscaled, analysis>>

RemoveAt(seq, i) == SubSeq(seq, 1, i - 1) \o SubSeq(seq, i + 1, Len(seq))

\* lines 215-218 and 193-199: img.onload of the i-th pending Image, and the
\* performProcessing of its render up to requestAnimationFrame; imgRef is
\* written and read within this handler, so that img is the loaded Image
ImageLoaded(i) ==
    /\ i \in 1..Len(app.loads)
    /\ app' = [app EXCEPT
                  !.loads = RemoveAt(@, i),
                  !.isProcessing = IF app.image = {} THEN @ ELSE TRUE,
                  !.frames = IF app.image = {} THEN @
                             ELSE Append(@, [mount |-> app.mounts,
                                             img |-> app.loads[i].img,
                                             settings |-> app.loads[i].settings])]
    /\ UNCHANGED <<canvas, call, svg, upscaled, analysis>>

\* part_003 line 27: getImageData raises IndexSizeError when asked for no pixels
ProcessThrows(cv, img) == cv.ctx /\ (img.width = 0 \/ img.height = 0)

\* lines 200-206: how the try block of the animation-frame callback ends for
\* the canvas cv: whether processSealImage threw, the canvas it leaves, and
\* the data URL handed to setProcessedImage
FrameOutcome(cv, img, settings) ==
    LET throws == ProcessThrows(cv, img)
        after  == IF throws THEN Prepare(cv, img) ELSE Processed(cv, img, settings)
    IN  [throws |-> throws, canvas |-> after,
         url |-> IF throws THEN {} ELSE {CanvasImage(after)}]

\* the values the processed canvas of the App takes, and FrameOutcome
\* tabulated over them
ProcessedSurfaces ==
    {FreshCanvases["processed"]}
        \cup {FrameOutcome(FreshCanvases["processed"], img, settings).canvas :
                 img \in AppImages, settings \in AppSettings}

FrameOutcomes ==
    [cv \in ProcessedSurfaces, img \in AppImages, settings \in AppSettings |->
        FrameOutcome(cv, img, settings)]

AnimationFrameLeavesFlagOnThrow ==
    /\ app.frames # <<>>
    /\ LET e   == Head(app.frames)
           out == FrameOutcomes[app.surfaces[e.mount]["processed"], e.img, e.settings]
       IN  app' = Collect([app EXCEPT
                      !.frames = Tail(@),
                      !.surfaces[e.mount]["processed"] = out.canvas,
                      !.processedImage = IF out.throws THEN @ ELSE out.url,
                      !.isProcessing = IF out.throws THEN @ ELSE FALSE])
    /\ canvas' = Current(app')
    /\ UNCHANGED <<call, svg, upscaled, analysis>>

\* lines 199-208: the requestAnimationFrame callback that was scheduled first
AnimationFrame ==
    /\ app.frames # <<>>
    /\ LET e   == Head(app.frames)
           out == FrameOutcomes[app.surfaces[e.mount]["processed"], e.img, e.settings]
       IN  app' = Collect([app EXCEPT
                      !.frames = Tail(@),
                      !.surfaces[e.mount]["processed"] = out.canvas,
                      !.processedImage = IF out.throws THEN @ ELSE out.url,
                      !.isProcessing = FALSE])
    /\ canvas' = Current(app')
    /\ UNCHANGED <<call, svg, upscaled, analysis>>

\* lines 222-227 with the button of line 400
HandleUpscale ==
    /\ app.image # {}
    /\ app.processedImage # {}
    /\ ~app.isUpscaling
    /\ app' = [app EXCEPT !.isUpscaling = TRUE,
                          !.upscaleTimer = {[mount |-> app.mounts]}]
    /\ UNCHANGED <<canvas, call, svg, upscaled, analysis>>

\* part_003 line 87: drawImage raises InvalidStateError for a source canvas
\* with no pixels
UpscaleThrows(source, target) ==
    target.ctx /\ (source.width = 0 \/ source.height = 0)

\* lines 229-233: how the try block of the upscale timer ends: whether
\* upscaleAndSharpen threw, the target it leaves (resized at lines 80-81 in
\* either case), and the data URL handed to setUpscaledImage
UpscaleOutcome(source, target, sampler) ==
    LET throws == UpscaleThrows(source, target)
        after  == IF throws
                  THEN SetHeight(SetWidth(target, 2 * source.width), 2 * source.height)
                  ELSE UpscaledTarget(source, target, Two, sampler)
    IN  [throws |-> throws, canvas |-> after,
         url |-> IF throws THEN {} ELSE {CanvasImage(after)}]

\* the values the upscale canvas of the App takes, and UpscaleOutcome
\* tabulated over them
UpscaleSurfaces ==
    {FreshCanvases["upscale"]}
        \cup {UpscaleOutcome(source, FreshCanvases["upscale"], sampler).canvas :
                 source \in ProcessedSurfaces, sampler \in Samplers}

UpscaleOutcomes ==
    [source \in ProcessedSurfaces, target \in UpscaleSurfaces, sampler \in Samplers |->
        UpscaleOutcome(source, target, sampler)]

\* lines 227-237: the setTimeout callback of handleUpscale(2)
UpscaleTimeout(sampler) ==
    /\ app.upscaleTimer # {}
    /\ LET e   == CHOOSE t \in app.upscaleTimer : TRUE
           out == UpscaleOutcomes[app.surfaces[e.mount]["processed"],
                                  app.surfaces[e.mount]["upscale"], sampler]
       IN  app' = Collect([app EXCEPT
                      !.upscaleTimer = {},
                      !.surfaces[e.mount]["upscale"] = out.canvas,
                      !.upscaledImage = IF out.throws THEN @ ELSE out.url,
                      !.isUpscaling = FALSE])
    /\ canvas' = Current(app')
    /\ UNCHANGED <<call, svg, upscaled, analysis>>

\* line 241: the data URL that handleDownloadPng offers
PngTarget == IF app.upscaledImage # {} THEN app.upscaledImage ELSE app.processedImage

\* lines 249-253 with the button of line 402: both refs are set while the
\* canvases are mounted, so upscaleCanvasRef.current || ... is the first
HandleDownloadVector ==
    /\ app.image # {}
    /\ app.processedImage # {}
    /\ ~app.isVectorizing
    /\ app' = [app EXCEPT !.isVectorizing = TRUE,
                          !.vectorTimer = {[mount |-> app.mounts, c |-> "upscale"]}]
    /\ UNCHANGED <<canvas, call, svg, upscaled, analysis>>

\* Traced tabulated over the values the canvases of the App take
TraceOutcomes ==
    [c \in Canvases, cv \in ProcessedSurfaces \cup UpscaleSurfaces,
     outcome \in TracerOutcomes |-> Traced(c, cv, outcome)]

\* lines 253-268: the setTimeout callback of handleDownloadVector
VectorTimeout(outcome) ==
    /\ app.vectorTimer # {}
    /\ LET e == CHOOSE t \in app.vectorTimer : TRUE
       IN  svg' = TraceOutcomes[e.c, app.surfaces[e.mount][e.c], outcome]
    /\ app' = Collect([app EXCEPT !.vectorTimer = {}, !.isVectorizing = FALSE])
    /\ UNCHANGED <<canvas, call, upscaled, analysis>>

NextApp ==
    \/ \E img \in AppImages : HandleFileUpload(img)
    \/ ResetImage
    \/ \E settings \in AppSettings : SetSettings(settings)
    \/ \E i \in 1..(MaxUploads + MaxChanges) : ImageLoaded(i)
    \/ AnimationFrame
    \/ HandleUpscale
    \/ \E sampler \in Samplers : UpscaleTimeout(sampler)
    \/ HandleDownloadVector
    \/ \E outcome \in TracerOutcomes : VectorTimeout(outcome)

SpecApp == InitApp /\ [][NextApp]_vars

\* The browser runs every animation-frame callback and every timer callback
\* it has been handed.
SpecAppFair ==
    /\ SpecApp
    /\ WF_vars(AnimationFrame)
    /\ WF_vars(\E sampler \in Samplers : UpscaleTimeout(sampler))
    /\ WF_vars(\E outcome \in TracerOutcomes : VectorTimeout(outcome))

\* the image a data URL of the App decodes to, drawn on a canvas of its size
ImageCanvas(image) == Prepare(BlankCanvas(MaxW, 1, TRUE), image)

\* what handleUpscale(2) publishes for a processed result
UpscaleOf(image, sampler) ==
    CanvasImage(UpscaledTarget(ImageCanvas(image), BlankCanvas(MaxW, 1, TRUE),
                               Two, sampler))

\* upscaledImage is the upscale of the processedImage of this state
UpscaleIsCurrent ==
    /\ app.upscaledImage # {}
    /\ app.processedImage # {}
    /\ \E sampler \in Samplers :
          app.upscaledImage = {UpscaleOf(CHOOSE image \in app.processedImage : TRUE,
                                         sampler)}

\* C27 as claimed: after any sequence of uploads, settings changes and upscale
\* requests, whenever upscaledImage is non-null it is the upscale of the
\* current processed result, so that the PNG shown and offered is never
\* older than processedImage.
C27_UpscaleFollowsProcessed ==
    (app.image # {} /\ app.upscaledImage # {})
        => /\ UpscaleIsCurrent
           /\ PngTarget = app.upscaledImage

\* C28 as claimed: a click on the SVG button hands traceToSvg the upscale
\* canvas only when an upscale of the current processed result has been
\* made, and the processed canvas when no upscale has run.
C28_TracesProcessedUntilUpscaled ==
    [][(app.vectorTimer = {} /\ app'.vectorTimer # {})
          => LET timer == CHOOSE t \in app'.vectorTimer : TRUE
             IN  /\ timer.c = "upscale" => UpscaleIsCurrent
                 /\ app.upscaledImage = {} => timer.c = "processed"]_vars

\* C29 as claimed: once every image-load and animation-frame callback has
\* run, the processed canvas and processedImage are the segmentation of the
\* loaded image under the latest settings, in whichever order the pending
\* image-load callbacks fired.
C29_LatestSettingsWriteLast ==
    (/\ app.image # {}
     /\ app.image # {EmptyImage}
     /\ app.loads = <<>>
     /\ app.frames = <<>>)
        => LET segmentation ==
                   Processed(BlankCanvas(MaxW, 1, TRUE),
                             CHOOSE image \in app.image : TRUE, app.settings)
           IN  /\ canvas["processed"] = segmentation
               /\ app.processedImage = {CanvasImage(segmentation)}

\* C30: a busy flag is true only while the callback scheduled with it is
\* pending; the callback clears it, also when processSealImage,
\* upscaleAndSharpen or traceToSvg throws, so every flag that is set is
\* eventually cleared; and a throw of processSealImage leaves processedImage
\* as it was.
C30_BusyFlagsAreCleared ==
    /\ [](/\ app.isProcessing => app.frames # <<>>
          /\ app.isUpscaling => app.upscaleTimer # {}
          /\ app.isVectorizing => app.vectorTimer # {})
    /\ [][Len(app'.frames) < Len(app.frames)
             => /\ ~app'.isProcessing
                /\ Head(app.frames).img = EmptyImage
                      => app'.processedImage = app.processedImage]_vars
    /\ [][(app.upscaleTimer # {} /\ app'.upscaleTimer = {}) => ~app'.isUpscaling]_vars
    /\ [][(app.vectorTimer # {} /\ app'.vectorTimer = {}) => ~app'.isVectorizing]_vars
    /\ app.isProcessing ~> ~app.isProcessing
    /\ app.isUpscaling ~> ~app.isUpscaling
    /\ app.isVectorizing ~> ~app.isVectorizing

\* the red ink of the first upload was processed on the canvases of the
\* second; then processSealImage threw on the empty second image and
\* processedImage kept the red result; upscaleAndSharpen threw on the
\* emptied processed canvas and traceToSvg on the emptied upscale canvas;
\* no flag is left set
C30_Witness ==
    /\ app.image = {EmptyImage}
    /\ app.processedImage = {[width |-> 1, height |-> 1,
                              data |-> <<Rgba(217, 0, 0, 255)>>]}
    /\ canvas["processed"].width = 0
    /\ canvas["upscale"].width = 0
    /\ app.upscaledImage = {}
    /\ svg.threw = "IndexSizeError"
    /\ app.frames = <<>>
    /\ app.upscaleTimer = {}
    /\ app.vectorTimer = {}
    /\ ~app.isProcessing /\ ~app.isUpscaling /\ ~app.isVectorizing

====
